---- MODULE Spec2Model ----
(***************************************************************************)
(* Model of pyscripts/generate_vectors.py: the fixture validation run of   *)
(* main(), with validate_xml_well_formed and validate_with_obspy.          *)
(*                                                                         *)
(* File names are sequences of code points, so that glob("*.xml") and      *)
(* sorted() are computed on the characters of the names.  Everything the   *)
(* run prints, every call of a check and every raise is appended to        *)
(* `trace` in program order.                                               *)
(***************************************************************************)
EXTENDS Integers, Sequences, FiniteSets

\* ---------------------------------------------------------------- bounds
MaxFiles == 3       \* directory entries in FIXTURES_DIR
MaxNets == 2        \* networks of an inventory returned by read_inventory
MaxStations == 1    \* stations of one network

\* ------------------------------------------------------------ file names
\* code points: '-' 45, '.' 46, 'B' 66, 'a' 97, 'l' 108, 'm' 109, 't' 116, 'x' 120
XmlSuffix == <<46, 120, 109, 108>>

\* the names a directory entry can have: a.xml, a-.xml, B.xml, a.txt
Universe ==
    { <<97, 46, 120, 109, 108>>,
      <<97, 45, 46, 120, 109, 108>>,
      <<66, 46, 120, 109, 108>>,
      <<97, 46, 116, 120, 116>> }

NoFile == <<>>

\* FIXTURES_DIR.glob("*.xml"): the entries whose name ends with ".xml"
glob(entries) ==
    { f \in entries :
        /\ Len(f) >= Len(XmlSuffix)
        /\ SubSeq(f, Len(f) - Len(XmlSuffix) + 1, Len(f)) = XmlSuffix }

\* Path.__lt__ for two entries of one directory: the names, compared
\* character by character, a proper prefix first
RECURSIVE PathLess(_, _)
PathLess(a, b) ==
    IF b = <<>> THEN FALSE
    ELSE IF a = <<>> THEN TRUE
    ELSE IF Head(a) # Head(b) THEN Head(a) < Head(b)
    ELSE PathLess(Tail(a), Tail(b))

\* sorted(...): ascending by PathLess
RECURSIVE sorted(_)
sorted(S) ==
    IF S = {} THEN <<>>
    ELSE LET m == CHOOSE x \in S : \A y \in S \ {x} : PathLess(x, y)
         IN  <<m>> \o sorted(S \ {m})

\* ------------------------------------------------------- oracle results
RECURSIVE SumSeq(_)
SumSeq(s) == IF s = <<>> THEN 0 ELSE Head(s) + SumSeq(Tail(s))

\* an inventory: the number of stations of each of its networks
Inventories ==
    UNION { [1..n -> 0..MaxStations] : n \in 0..MaxNets }

\* net_count = len(inv.networks)
net_count(inv) == Len(inv)

\* sta_count = sum(len(net.stations) for net in inv.networks)
sta_count(inv) == SumSeq(inv)

\* what read_inventory(str(path)) does: returns an inventory or raises
ReadOutcomes ==
    { [kind |-> "inventory", inv |-> v] : v \in Inventories }
      \cup { [kind |-> "Exception", inv |-> <<>>],
             [kind |-> "ImportError", inv |-> <<>>] }

\* what ET.parse(path) does: returns, raises ET.ParseError, or raises
\* another error (OSError for an unreadable entry or a directory)
ParseOutcomes == {"parsed", "ParseError", "OSError"}

NoRead == [kind |-> "Exception", inv |-> <<>>]

\* a directory entry as the two parsers see it; read_inventory only matters
\* for an entry that ET.parse accepts
Documents ==
    { [et |-> "parsed", read |-> r] : r \in ReadOutcomes }
      \cup { [et |-> e, read |-> NoRead] : e \in ParseOutcomes \ {"parsed"} }

NoDocument == [et |-> "OSError", read |-> NoRead]

\* ------------------------------------------------------------------ state
VARIABLES
    FIXTURES_DIR,    \* the names of the entries of the fixtures directory
    docs,            \* the content of each entry, as the parsers see it
    obspy_installed, \* whether `from obspy import read_inventory` succeeds
    pc,              \* position of main()
    fixture_files,   \* main: fixture_files
    idx,             \* main: position of the for loop in fixture_files
    ok,              \* main: ok
    all_ok,          \* main: all_ok
    trace,           \* prints, calls and raises, in program order
    exit_status      \* process exit status once main() has ended, else -1

vars == <<FIXTURES_DIR, docs, obspy_installed, pc, fixture_files, idx, ok,
          all_ok, trace, exit_status>>

Event(e, f, w, n, s) == [ev |-> e, fx |-> f, what |-> w, nets |-> n, stas |-> s]
Line(f, w) == Event("print", f, w, 0, 0)
Called(f, w) == Event("call", f, w, 0, 0)
Raised(f, w) == Event("raise", f, w, 0, 0)
Returned(f, w, v) ==
    Event(IF v THEN "return True" ELSE "return False", f, w, 0, 0)

\* ---------------------------------------------------------------- mutants
\* validate_xml_well_formed dropping the diagnostic of a ParseError
validate_xml_well_formed_silent(path, parsed) ==
    CASE parsed = "parsed" ->
           [returns |-> TRUE, raises |-> FALSE, out |-> <<>>]
      [] parsed = "ParseError" ->
           [returns |-> FALSE, raises |-> FALSE, out |-> <<>>]
      [] OTHER ->
           [returns |-> FALSE, raises |-> TRUE, out |-> <<>>]

\* validate_with_obspy with the ImportError of the import handled by the
\* handler of Exception
validate_with_obspy_import_fails(path, installed, r) ==
    IF ~installed
    THEN [returns |-> FALSE, out |-> <<Line(path, "ObsPy FAIL")>>]
    ELSE CASE r.kind = "inventory" ->
                [returns |-> TRUE,
                 out |-> <<Event("print", path, "ObsPy OK",
                                 net_count(r.inv), sta_count(r.inv))>>]
           [] r.kind = "ImportError" ->
                [returns |-> TRUE,
                 out |-> <<Line(path, "ObsPy not available, skipping")>>]
           [] OTHER ->
                [returns |-> FALSE, out |-> <<Line(path, "ObsPy FAIL")>>]

\* the test of line 62 never taken
no_fixtures_never(files) == FALSE

\* the loop stopping one element early
has_next_short(i, files) == i < Len(files)

\* all_ok = ok
and_ok_last(a, o) == o

\* ------------------------------------------------ validate_xml_well_formed
\* the return value (or the raise) and the lines printed, for what
\* ET.parse did
validate_xml_well_formed(path, parsed) ==
    CASE parsed = "parsed" ->
           [returns |-> TRUE, raises |-> FALSE, out |-> <<>>]
      [] parsed = "ParseError" ->
           [returns |-> FALSE, raises |-> FALSE,
            out |-> <<Line(path, "FAIL")>>]
      [] OTHER ->
           [returns |-> FALSE, raises |-> TRUE, out |-> <<>>]

\* ----------------------------------------------------- validate_with_obspy
\* installed: whether the import of line 34 succeeds; r: what
\* read_inventory does when it is called
validate_with_obspy(path, installed, r) ==
    IF ~installed
    THEN [returns |-> TRUE,
          out |-> <<Line(path, "ObsPy not available, skipping")>>]
    ELSE CASE r.kind = "inventory" ->
                [returns |-> TRUE,
                 out |-> <<Event("print", path, "ObsPy OK",
                                 net_count(r.inv), sta_count(r.inv))>>]
           [] r.kind = "ImportError" ->
                [returns |-> TRUE,
                 out |-> <<Line(path, "ObsPy not available, skipping")>>]
           [] OTHER ->
                [returns |-> FALSE, out |-> <<Line(path, "ObsPy FAIL")>>]

\* ------------------------------------------------------------------- main
\* `if not fixture_files`
no_fixtures(files) == files = <<>>

\* `for path in fixture_files`: whether the loop has a next element
has_next(i, files) == i <= Len(files)

\* `all_ok = all_ok and ok`
and_ok(a, o) == a /\ o

Init ==
    /\ FIXTURES_DIR \in { d \in SUBSET Universe : Cardinality(d) <= MaxFiles }
    /\ docs \in [Universe -> Documents]
    /\ \A f \in Universe : f \notin glob(FIXTURES_DIR) => docs[f] = NoDocument
    /\ obspy_installed \in BOOLEAN
    /\ pc = "start"
    /\ fixture_files = <<>>
    /\ idx = 1
    /\ ok = TRUE
    /\ all_ok = TRUE
    /\ trace = <<>>
    /\ exit_status = -1

\* lines 53-61: mkdir, the header lines, glob and sort
Discover ==
    /\ pc = "start"
    /\ trace' = trace \o <<Line(NoFile, "Fixtures dir"),
                           Line(NoFile, "Vectors dir"),
                           Line(NoFile, "")>>
    /\ fixture_files' = sorted(glob(FIXTURES_DIR))
    /\ pc' = "test_empty"
    /\ UNCHANGED <<FIXTURES_DIR, docs, obspy_installed, idx, ok, all_ok, exit_status>>

\* lines 62-64: nothing to validate, main returns
NoFixtures ==
    /\ pc = "test_empty"
    /\ no_fixtures(fixture_files)
    /\ trace' = trace \o <<Line(NoFile, "No fixture files found.")>>
    /\ exit_status' = 0
    /\ pc' = "done"
    /\ UNCHANGED <<FIXTURES_DIR, docs, obspy_installed, fixture_files, idx, ok,
                   all_ok>>

\* lines 66-67
BeginValidation ==
    /\ pc = "test_empty"
    /\ ~no_fixtures(fixture_files)
    /\ trace' = trace \o <<Event("print", NoFile, "Validating",
                                 Len(fixture_files), 0)>>
    /\ all_ok' = TRUE
    /\ idx' = 1
    /\ pc' = "for"
    /\ UNCHANGED <<FIXTURES_DIR, docs, obspy_installed, fixture_files, ok, exit_status>>

\* lines 68-69: the next fixture, its name line
NextFixture ==
    /\ pc = "for"
    /\ has_next(idx, fixture_files)
    /\ trace' = trace \o <<Line(fixture_files[idx], "name")>>
    /\ pc' = "well_formed"
    /\ UNCHANGED <<FIXTURES_DIR, docs, obspy_installed, fixture_files, idx, ok,
                   all_ok, exit_status>>

\* line 70: ok = validate_xml_well_formed(path); an error that the function
\* does not catch leaves main() and ends the process with status 1
WellFormed ==
    /\ pc = "well_formed"
    /\ LET path == fixture_files[idx]
           v == validate_xml_well_formed(path, docs[path].et)
       IN  IF v.raises
           THEN /\ trace' = trace \o <<Called(path, "validate_xml_well_formed"),
                                       Raised(path, docs[path].et)>>
                /\ exit_status' = 1
                /\ pc' = "done"
                /\ UNCHANGED ok
           ELSE /\ trace' = trace
                              \o <<Called(path, "validate_xml_well_formed")>>
                              \o v.out
                              \o <<Returned(path, "validate_xml_well_formed",
                                            v.returns)>>
                /\ ok' = v.returns
                /\ pc' = "if_ok"
                /\ UNCHANGED exit_status
    /\ UNCHANGED <<FIXTURES_DIR, docs, obspy_installed, fixture_files, idx,
                   all_ok>>

\* lines 71-73, ok is true: the OK line, then ok = validate_with_obspy(path)
Oracle ==
    /\ pc = "if_ok"
    /\ ok
    /\ LET path == fixture_files[idx]
           v == validate_with_obspy(path, obspy_installed, docs[path].read)
       IN  /\ trace' = trace
                         \o <<Line(path, "XML well-formed: OK"),
                              Called(path, "validate_with_obspy")>>
                         \o v.out
                         \o <<Returned(path, "validate_with_obspy", v.returns)>>
           /\ ok' = v.returns
    /\ pc' = "aggregate"
    /\ UNCHANGED <<FIXTURES_DIR, docs, obspy_installed, fixture_files, idx,
                   all_ok, exit_status>>

\* line 71, ok is false: the oracle check is not run
SkipOracle ==
    /\ pc = "if_ok"
    /\ ~ok
    /\ pc' = "aggregate"
    /\ UNCHANGED <<FIXTURES_DIR, docs, obspy_installed, fixture_files, idx, ok,
                   all_ok, trace, exit_status>>

\* line 74, and the step of the for loop
Aggregate ==
    /\ pc = "aggregate"
    /\ all_ok' = and_ok(all_ok, ok)
    /\ idx' = idx + 1
    /\ pc' = "for"
    /\ UNCHANGED <<FIXTURES_DIR, docs, obspy_installed, fixture_files, ok, trace, exit_status>>

\* lines 76-78
SummaryValid ==
    /\ pc = "for"
    /\ ~has_next(idx, fixture_files)
    /\ all_ok
    /\ trace' = trace \o <<Line(NoFile, ""),
                           Line(NoFile, "All fixtures valid.")>>
    /\ exit_status' = 0
    /\ pc' = "done"
    /\ UNCHANGED <<FIXTURES_DIR, docs, obspy_installed, fixture_files, idx, ok,
                   all_ok>>

\* lines 76, 79-81
SummaryFailed ==
    /\ pc = "for"
    /\ ~has_next(idx, fixture_files)
    /\ ~all_ok
    /\ trace' = trace \o <<Line(NoFile, ""),
                           Line(NoFile, "Some fixtures failed validation!"),
                           Raised(NoFile, "SystemExit(1)")>>
    /\ exit_status' = 1
    /\ pc' = "done"
    /\ UNCHANGED <<FIXTURES_DIR, docs, obspy_installed, fixture_files, idx, ok,
                   all_ok>>

Next ==
    \/ Discover
    \/ NoFixtures
    \/ BeginValidation
    \/ NextFixture
    \/ WellFormed
    \/ Oracle
    \/ SkipOracle
    \/ Aggregate
    \/ SummaryValid
    \/ SummaryFailed

Spec == Init /\ [][Next]_vars

\* ------------------------------------------------- reading the trace back
Fixtures == { fixture_files[i] : i \in DOMAIN fixture_files }

\* position of a fixture in the processing order
Pos(f) == CHOOSE i \in DOMAIN fixture_files : fixture_files[i] = f

At(e, f, w) ==
    { p \in DOMAIN trace :
        trace[p].ev = e /\ trace[p].fx = f /\ trace[p].what = w }

Calls(f, w) == Cardinality(At("call", f, w))

\* the lines printed for fixture f, in order
RECURSIVE WhatOf(_)
WhatOf(s) == IF s = <<>> THEN <<>> ELSE <<Head(s).what>> \o WhatOf(Tail(s))

IsLineOf(e, f) == e.ev = "print" /\ e.fx = f

Block(f) == WhatOf(SelectSeq(trace, LAMBDA e : IsLineOf(e, f)))

OracleLines == {"ObsPy OK", "ObsPy not available, skipping", "ObsPy FAIL"}

SummaryLines == {"All fixtures valid.", "Some fixtures failed validation!"}

\* a check of fixture f returned False, or raised out of main()
Failed(f) ==
    \E p \in DOMAIN trace :
        trace[p].fx = f /\ trace[p].ev \in {"return False", "raise"}

\* the well-formedness check of f has returned
WellFormedReturned(f) ==
    \E p \in DOMAIN trace :
        /\ trace[p].fx = f
        /\ trace[p].what = "validate_xml_well_formed"
        /\ trace[p].ev \in {"return True", "return False"}

\* the oracle check of f has returned
OracleReturned(f) ==
    \E p \in DOMAIN trace :
        /\ trace[p].fx = f
        /\ trace[p].what = "validate_with_obspy"
        /\ trace[p].ev \in {"return True", "return False"}

\* every check main() runs on f has returned
ChecksReturned(f) ==
    \/ At("return False", f, "validate_xml_well_formed") # {}
    \/ OracleReturned(f)

\* the fixtures in the order in which their well-formedness check was called
RECURSIVE CalledOrder(_)
CalledOrder(s) ==
    IF s = <<>> THEN <<>>
    ELSE IF Head(s).ev = "call" /\ Head(s).what = "validate_xml_well_formed"
         THEN <<Head(s).fx>> \o CalledOrder(Tail(s))
         ELSE CalledOrder(Tail(s))

\* ------------------------------------------------------------------ claims

\* C1: when main() has ended, the exit status is non-zero if and only if a
\* check of some discovered fixture failed (validate_xml_well_formed or
\* validate_with_obspy returned False, or raised); with every check passed,
\* and with no fixture discovered, the exit status is 0.
C1_ExitStatus ==
    pc = "done" =>
        /\ exit_status \in {0, 1}
        /\ exit_status # 0 <=> \E f \in glob(FIXTURES_DIR) : Failed(f)
        /\ glob(FIXTURES_DIR) = {} => exit_status = 0

\* a failing fixture followed by a passing one, and the run ended with 1
C1_Witness ==
    /\ pc = "done"
    /\ exit_status = 1
    /\ Len(fixture_files) >= 2
    /\ Failed(fixture_files[1])
    /\ ~Failed(fixture_files[Len(fixture_files)])
    /\ OracleReturned(fixture_files[Len(fixture_files)])

\* C2: when main() has ended, a fixture that ET.parse rejects has failed and
\* has no call of validate_with_obspy, and a fixture that ET.parse accepts
\* has exactly one.
C2_OracleCalls ==
    pc = "done" =>
        \A f \in glob(FIXTURES_DIR) :
            /\ docs[f].et = "ParseError" =>
                 Failed(f) /\ Calls(f, "validate_with_obspy") = 0
            /\ docs[f].et = "parsed" => Calls(f, "validate_with_obspy") = 1

\* C3: no error of a check leaves main(): nothing is raised for a fixture,
\* and when main() has ended every discovered fixture has been checked.
C3_NoErrorEscapes ==
    /\ \A p \in DOMAIN trace : trace[p].ev = "raise" => trace[p].fx = NoFile
    /\ pc = "done" =>
         \A f \in glob(FIXTURES_DIR) : Calls(f, "validate_xml_well_formed") = 1

\* C4: a well-formed fixture on which the oracle was loaded and its parse
\* call raised has failed, and the run ends with a non-zero exit status.
C4_OracleRejects ==
    \A f \in Fixtures :
        ( /\ OracleReturned(f)
          /\ obspy_installed
          /\ docs[f].read.kind # "inventory" )
        => /\ Failed(f)
           /\ pc = "done" => exit_status # 0

C6_OracleReport ==
    \A f \in Fixtures :
        OracleReturned(f) =>
            LET line == Block(f)[Len(Block(f))]
                r == docs[f].read
            IN  /\ line = "ObsPy not available, skipping" <=> ~obspy_installed
                /\ line = "ObsPy OK" <=>
                     (obspy_installed /\ r.kind = "inventory")
                /\ line = "ObsPy FAIL" <=>
                     (obspy_installed /\ r.kind # "inventory")
                /\ line = "ObsPy OK" =>
                     \E p \in At("print", f, "ObsPy OK") :
                         /\ trace[p].nets = Len(r.inv)
                         /\ trace[p].stas = SumSeq(r.inv)

\* C7: when main() has ended, the fixtures whose checks were run are the
\* entries matching *.xml, each once, in ascending order of name.
C7_Order ==
    pc = "done" =>
        LET order == CalledOrder(trace)
        IN  /\ { order[i] : i \in DOMAIN order } = glob(FIXTURES_DIR)
            /\ \A i, j \in DOMAIN order :
                 i < j => PathLess(order[i], order[j])

\* C8: no line of a fixture is printed after a check of a later fixture is
\* called, every earlier fixture's block is complete by then, and the
\* summary line and SystemExit come after every check and every line of
\* every fixture.
BlockComplete(f) ==
    /\ Block(f) # <<>>
    /\ Block(f)[Len(Block(f))] \in OracleLines \cup {"FAIL"}

C8_Streaming ==
    /\ \A p, q \in DOMAIN trace :
         ( /\ trace[q].ev = "call"
           /\ trace[p].fx \in Fixtures
           /\ Pos(trace[p].fx) < Pos(trace[q].fx) )
         => p < q /\ BlockComplete(trace[p].fx)
    /\ \A p \in DOMAIN trace :
         ( /\ trace[p].fx = NoFile
           /\ trace[p].what \in SummaryLines \cup {"SystemExit(1)"} )
         => /\ \A q \in DOMAIN trace : trace[q].fx # NoFile => q < p
            /\ \A f \in Fixtures : ChecksReturned(f) /\ BlockComplete(f)

\* three fixtures checked and reported, then the summary
C8_Witness ==
    /\ pc = "done"
    /\ Len(fixture_files) = 3
    /\ \E p \in DOMAIN trace : trace[p].what \in SummaryLines
    /\ \A f \in Fixtures : BlockComplete(f)

\* C9: with no fixture discovered, main() prints "No fixture files found."
\* and ends with exit status 0, having called no check and printed no
\* summary line.
C9_NoFixtures ==
    (pc = "done" /\ glob(FIXTURES_DIR) = {}) =>
        /\ exit_status = 0
        /\ trace[Len(trace)] = Line(NoFile, "No fixture files found.")
        /\ \A p \in DOMAIN trace :
             /\ trace[p].ev = "print"
             /\ trace[p].what \notin SummaryLines \cup {"Validating"}

\* a directory holding only a.txt
C9_Witness ==
    /\ pc = "done"
    /\ FIXTURES_DIR # {}
    /\ glob(FIXTURES_DIR) = {}
    /\ exit_status = 0

\* C10 as stated: every fixture whose well-formedness check has returned and
\* whose checks are over has a block with its name, a well-formedness status
\* and an oracle status; a fixture that ET.parse rejects shows FAIL and an
\* oracle status of skipped.
C10_BlockHasOracleStatus ==
    \A f \in Fixtures :
        ChecksReturned(f) =>
            /\ Block(f)[1] = "name"
            /\ \E i \in DOMAIN Block(f) :
                 Block(f)[i] \in {"XML well-formed: OK", "FAIL"}
            /\ \E i \in DOMAIN Block(f) : Block(f)[i] \in OracleLines
            /\ docs[f].et = "ParseError" =>
                 /\ \E i \in DOMAIN Block(f) : Block(f)[i] = "FAIL"
                 /\ \E i \in DOMAIN Block(f) :
                      Block(f)[i] = "ObsPy not available, skipping"

\* C10 amended: the block of a fixture is its name line, then for a fixture
\* that ET.parse rejects the FAIL line and no oracle line, for a fixture
\* that ET.parse accepts the OK line and one oracle line, and nothing more
\* for a fixture whose well-formedness check raised another error.
C10_Block ==
    \A f \in Fixtures :
        /\ Calls(f, "validate_xml_well_formed") = 0 => Len(Block(f)) <= 1
        /\ (ChecksReturned(f) /\ docs[f].et = "ParseError") =>
             Block(f) = <<"name", "FAIL">>
        /\ (ChecksReturned(f) /\ docs[f].et = "parsed") =>
             /\ Len(Block(f)) = 3
             /\ Block(f)[1] = "name"
             /\ Block(f)[2] = "XML well-formed: OK"
             /\ Block(f)[3] \in OracleLines
        /\ At("raise", f, "OSError") # {} => Block(f) = <<"name">>

\* a malformed fixture and a well-formed one, both reported
C10_Witness ==
    /\ pc = "done"
    /\ \E f, g \in Fixtures :
         /\ docs[f].et = "ParseError"
         /\ docs[g].et = "parsed"
         /\ ChecksReturned(f)
         /\ ChecksReturned(g)

====
